---- MODULE Spec2Model ----
(***************************************************************************)
(* Model of nwisretrieval/nwisretrieval.py: the NWISFrame container (a     *)
(* pandas DataFrame subclass carrying a metadata dictionary), the          *)
(* operations on it (check_quals, check_approval, resolve_masks,           *)
(* gap_index, check_gaps, fill_gaps) and get_nwis, which builds a          *)
(* container from one HTTP response.                                       *)
(* The get_nwis of register.py, the item_generator of nwis.py and the     *)
(* getqwp of qwpretrieval/qwpretreival.py are modelled beside it, each     *)
(* under a specification of its own.                                       *)
(*                                                                         *)
(* Time is counted in ticks of twelve hours from midnight of the first     *)
(* calendar date; a calendar date string parses to the tick of its         *)
(* midnight.  Python objects of different types that share one slot        *)
(* (None, the Unknown sentinel, booleans, strings) are written as strings. *)
(***************************************************************************)
EXTENDS Integers, Sequences, FiniteSets, TLC

\* ------------------------------------------------------------------ bounds
MaxRows == 2      \* rows in one response
MaxItems == 2     \* items of one list or dict of a JSON document

\* ------------------------------------------------------- Python constants
Unknown == "<Unknown>"          \* sentinel.create("Unknown")
PyNone == "<None>"              \* None
MaskValue == -999999            \* NWIS masking value

PyBool(b) == IF b THEN "True" ELSE "False"

\* A float: a number or NaN.
NaN == [nan |-> TRUE, num |-> 0]
Num(n) == [nan |-> FALSE, num |-> n]

\* A cell of the "qualifiers" column: a list of codes, or NaN after reindex.
NoQuals == [null |-> TRUE, codes |-> <<>>]
Quals(codes) == [null |-> FALSE, codes |-> codes]

\* frozenset(list)
frozenset(codes) == {codes[i] : i \in 1..Len(codes)}

\* ----------------------------------------------------------- calendar
\* the calendar dates a query may name
CalendarDates == <<"2023-01-03", "2023-01-04">>
Dates == {CalendarDates[i] : i \in 1..Len(CalendarDates)}

\* pandas offset of a frequency string, in ticks
to_offset(freq) == CASE freq = "12H" -> 1 [] freq = "D" -> 2
ValidFreq == {"12H", "D"}

\* pd.Timestamp(date string): midnight of that date
Timestamp(date) ==
    ((CHOOSE i \in 1..Len(CalendarDates) : CalendarDates[i] = date) - 1) * to_offset("D")

Ticks == 0..(Len(CalendarDates) * to_offset("D") - 1)

\* pd.date_range(start, end, freq): every start + k*freq that is <= end
date_range(start, end, freq) ==
    {t \in Timestamp(start)..Timestamp(end) :
        (t - Timestamp(start)) % to_offset(freq) = 0}

\* ----------------------------------------------------- rows of a frame
Index(rows) == {rows[i].dateTime : i \in 1..Len(rows)}
is_unique(rows) == \A i, j \in 1..Len(rows) : rows[i].dateTime = rows[j].dateTime => i = j

\* a set of ticks as the increasing sequence a DatetimeIndex holds
RECURSIVE SortedSeq(_)
SortedSeq(S) ==
    IF S = {} THEN <<>>
    ELSE LET m == CHOOSE x \in S : \A y \in S : x <= y
         IN <<m>> \o SortedSeq(S \ {m})

\* ------------------------------------------------- quality annotation
\* NWISFrame.check_quals: "Ice" if any non-null qualifier set holds "Ice" or "i"
unique_quals(rows) ==
    {frozenset(rows[i].qualifiers.codes) :
        i \in {k \in 1..Len(rows) : ~rows[k].qualifiers.null}}

check_quals_ice_only(rows) ==
    IF \E qual \in unique_quals(rows) : "Ice" \in qual THEN "Ice" ELSE Unknown

check_quals(rows) ==
    IF \E qual \in unique_quals(rows) : "Ice" \in qual \/ "i" \in qual
    THEN "Ice" ELSE Unknown

\* nwisretrieval2.NWISFrame.qualifier (accessor variant; no null mask)
qualifier2(rows) ==
    IF \E qual \in {frozenset(rows[i].qualifiers.codes) : i \in 1..Len(rows)} :
            "Ice" \in qual \/ "i" \in qual
    THEN "Ice" ELSE "None"

approval_level_all(rows) ==
    IF \A approval \in unique_quals(rows) : "P" \in approval
    THEN "Provisional" ELSE "Approved"

\* NWISFrame.check_approval: the returned level (also cached in _approval)
approval_level(rows) ==
    IF \E approval \in unique_quals(rows) : "P" \in approval
    THEN "Provisional" ELSE "Approved"

\* ---------------------------------------------------------- mask resolver
\* value != -999999.0 on floats: NaN differs from everything
ne(v, n) == v.nan \/ v.num # n

where_eq_mask(v) == IF ne(v, MaskValue) THEN NaN ELSE v

where_toggle(v) ==
    IF v.nan THEN Num(MaskValue) ELSE IF ne(v, MaskValue) THEN v ELSE NaN

\* Series.where(cond, NaN): keep the value where cond holds
where_ne_mask(v) == IF ne(v, MaskValue) THEN v ELSE NaN

\* NWISFrame.resolve_masks: the frame's rows after the assignment
resolve_masks(rows) ==
    [i \in 1..Len(rows) |-> [rows[i] EXCEPT !.value = where_ne_mask(rows[i].value)]]

\* ------------------------------------------------------ gap tolerance
resolve_gaptolerance_no_fallback(meta, gap_tol) ==
    IF gap_tol = PyNone THEN Unknown ELSE gap_tol

resolve_gaptolerance_stored_first(meta, gap_tol) ==
    IF meta["_gap_tolerance"] \notin {PyNone, Unknown} THEN meta["_gap_tolerance"]
    ELSE IF gap_tol = PyNone THEN Unknown ELSE gap_tol

\* NWISFrame._resolve_gaptolerance
resolve_gaptolerance(meta, gap_tol) ==
    IF gap_tol = PyNone
    THEN (IF meta["_gap_tolerance"] # PyNone THEN meta["_gap_tolerance"] ELSE Unknown)
    ELSE gap_tol

\* pd.date_range raises ValueError for a freq that is no frequency
date_range_raises(freq) == freq \notin ValidFreq

\* pd.Timestamp raises ValueError for a string that is no date, such as the
\* string form of the Unknown sentinel
Timestamp_raises(date) == date \notin Dates

\* pd.date_range(self.start_date, self.end_date, freq=tol) raises ValueError
range_raises(meta, tol) ==
    \/ date_range_raises(tol)
    \/ Timestamp_raises(meta["_start_date"])
    \/ Timestamp_raises(meta["_end_date"])

\* the expected index of a container at a tolerance
expected_index(meta, tol) == date_range(meta["_start_date"], meta["_end_date"], tol)

gap_index_symmetric(rows, meta, gap_tol) ==
    LET tol == resolve_gaptolerance(meta, gap_tol) IN
    IF range_raises(meta, tol)
    THEN [raised |-> "ValueError", index |-> {}]
    ELSE [raised |-> "",
          index |-> (expected_index(meta, tol) \ Index(rows))
                    \cup (Index(rows) \ expected_index(meta, tol))]

\* NWISFrame.gap_index: expected index minus actual index, or ValueError
gap_index(rows, meta, gap_tol) ==
    LET tol == resolve_gaptolerance(meta, gap_tol) IN
    IF range_raises(meta, tol)
    THEN [raised |-> "ValueError", index |-> {}]
    ELSE [raised |-> "", index |-> expected_index(meta, tol) \ Index(rows)]

\* DataFrame.reindex(target): a non-unique index raises ValueError; labels
\* of the target missing from the frame get NaN in every column
reindex_raises(rows) == ~is_unique(rows)

reindex_append(rows, target) ==
    LET kept == SelectSeq(rows, LAMBDA row : row.dateTime \in target)
        ts == SortedSeq(target \ Index(rows))
    IN  kept \o [k \in 1..Len(ts) |-> [dateTime |-> ts[k], value |-> NaN, qualifiers |-> NoQuals]]

reindex(rows, target) ==
    LET ts == SortedSeq(target) IN
    [k \in 1..Len(ts) |->
        IF ts[k] \in Index(rows)
        THEN rows[CHOOSE i \in 1..Len(rows) : rows[i].dateTime = ts[k]]
        ELSE [dateTime |-> ts[k], value |-> NaN, qualifiers |-> NoQuals]]

fill_gaps_default_daily(rows, meta, gap_tol) ==
    LET tol == IF resolve_gaptolerance(meta, gap_tol) = Unknown
               THEN "D" ELSE resolve_gaptolerance(meta, gap_tol) IN
    IF range_raises(meta, tol) \/ reindex_raises(rows)
    THEN [ok |-> FALSE, rows |-> rows, tol |-> tol]
    ELSE [ok |-> TRUE, rows |-> reindex(rows, expected_index(meta, tol)), tol |-> tol]

\* NWISFrame.fill_gaps: ok = the try block ran to its end
fill_gaps(rows, meta, gap_tol) ==
    LET tol == resolve_gaptolerance(meta, gap_tol) IN
    IF range_raises(meta, tol) \/ reindex_raises(rows)
    THEN [ok |-> FALSE, rows |-> rows, tol |-> tol]
    ELSE [ok |-> TRUE, rows |-> reindex(rows, expected_index(meta, tol)), tol |-> tol]

\* label slice [start:end] of a DatetimeIndex by date strings: from the
\* first instant of start through the last instant of end
slice(index, start, end) ==
    {t \in index : Timestamp(start) <= t /\ t <= Timestamp(end) + to_offset("D") - 1}

check_gaps_whole_series(rows, meta, gap_tol, start_date, end_date) ==
    LET tol == resolve_gaptolerance(meta, gap_tol)
        gaps == gap_index(rows, meta, tol)
    IN  IF tol = Unknown THEN [ret |-> Unknown, warned |-> TRUE, raised |-> ""]
        ELSE IF gaps.raised # "" THEN [ret |-> PyNone, warned |-> FALSE, raised |-> gaps.raised]
        ELSE IF gaps.index = {} THEN [ret |-> "False", warned |-> FALSE, raised |-> ""]
        ELSE [ret |-> "True", warned |-> TRUE, raised |-> ""]

\* NWISFrame.check_gaps; a ValueError of gap_index is not caught
check_gaps(rows, meta, gap_tol, start_date, end_date) ==
    LET tol == resolve_gaptolerance(meta, gap_tol)
        gaps == gap_index(rows, meta, tol)
    IN  IF tol = Unknown THEN [ret |-> Unknown, warned |-> TRUE, raised |-> ""]
        ELSE IF gaps.raised # "" THEN [ret |-> PyNone, warned |-> FALSE, raised |-> gaps.raised]
        ELSE IF gaps.index = {} THEN [ret |-> "False", warned |-> FALSE, raised |-> ""]
        ELSE IF start_date # PyNone /\ end_date # PyNone
             THEN IF slice(gaps.index, start_date, end_date) = {}
                  THEN [ret |-> "False", warned |-> FALSE, raised |-> ""]
                  ELSE [ret |-> "True", warned |-> TRUE, raised |-> ""]
        ELSE [ret |-> "True", warned |-> TRUE, raised |-> ""]

\* ------------------------------------------------------------ get_nwis
\* A URL is kept as its endpoint and its query parameters in order; url_text
\* is the string the f-string spells out.
NoUrl == [base |-> "", query |-> <<>>]

RECURSIVE query_text(_)
query_text(query) ==
    IF query = <<>> THEN ""
    ELSE query[1][1] \o "=" \o query[1][2]
         \o (IF Len(query) > 1 THEN "&" ELSE "") \o query_text(Tail(query))

url_text(url) == url.base \o "?" \o query_text(url.query)

build_url_default_iv(STAID, start_date, end_date, param, stat_code, service, access) ==
    IF service = "dv"
    THEN [base |-> "https://nwis.waterservices.usgs.gov/nwis/dv/",
          query |-> << <<"format", "json">>, <<"sites", STAID>>,
                       <<"startDT", start_date>>, <<"endDT", end_date>>,
                       <<"statCd", stat_code>>, <<"parameterCd", param>>,
                       <<"siteStatus", "all">>, <<"access", access>> >>]
    ELSE [base |-> "https://nwis.waterservices.usgs.gov/nwis/iv/",
          query |-> << <<"format", "json">>, <<"sites", STAID>>,
                       <<"parameterCd", param>>,
                       <<"startDT", start_date>>, <<"endDT", end_date>>,
                       <<"siteStatus", "all">>, <<"access", access>> >>]

\* build_url: the URL of the chosen service; NoUrl stands for the KeyError
\* of service_urls[service]
build_url(STAID, start_date, end_date, param, stat_code, service, access) ==
    CASE service = "dv" ->
            [base |-> "https://nwis.waterservices.usgs.gov/nwis/dv/",
             query |-> << <<"format", "json">>, <<"sites", STAID>>,
                          <<"startDT", start_date>>, <<"endDT", end_date>>,
                          <<"statCd", stat_code>>, <<"parameterCd", param>>,
                          <<"siteStatus", "all">>, <<"access", access>> >>]
      [] service = "iv" ->
            [base |-> "https://nwis.waterservices.usgs.gov/nwis/iv/",
             query |-> << <<"format", "json">>, <<"sites", STAID>>,
                          <<"parameterCd", param>>,
                          <<"startDT", start_date>>, <<"endDT", end_date>>,
                          <<"siteStatus", "all">>, <<"access", access>> >>]
      [] OTHER -> NoUrl

\* response.reason of a status code
reason(status_code) ==
    CASE status_code = 200 -> "OK" [] status_code = 201 -> "Created"
      [] status_code = 404 -> "Not Found"

query_url_any_2xx(url, status_code) ==
    IF status_code \notin 200..299
    THEN [raised |-> "SystemExit", gets |-> 1,
          message |-> <<"Critical error!  No data found at: ", url_text(url),
                        " Reason: ", reason(status_code)>>]
    ELSE [raised |-> "", gets |-> 1, message |-> <<>>]

query_url_retry(url, status_code) ==
    IF status_code # 200
    THEN [raised |-> "SystemExit", gets |-> 2,
          message |-> <<"Critical error!  No data found at: ", url_text(url),
                        " Reason: ", reason(status_code)>>]
    ELSE [raised |-> "", gets |-> 1, message |-> <<>>]

\* query_url: one requests.get; any status but 200 prints the URL and the
\* reason and raises SystemExit
query_url(url, status_code) ==
    IF status_code # 200
    THEN [raised |-> "SystemExit", gets |-> 1,
          message |-> <<"Critical error!  No data found at: ", url_text(url),
                        " Reason: ", reason(status_code)>>]
    ELSE [raised |-> "", gets |-> 1, message |-> <<>>]

\* x or NWISFrame.Unknown: the empty string, the number zero (numbers are held
\* as their JSON text) and null are falsy
or_unknown(x) == IF x \in {"", "0", PyNone} THEN Unknown ELSE x

\* a field the JSON body does not have
Missing == "<Missing>"

\* the four plain lookups of create_metadict raise KeyError on a body that
\* lacks one of the fields
metadata_raises(rdata) ==
    Missing \in {rdata.siteName, rdata.latitude, rdata.longitude, rdata.variableDescription}

\* create_metadict(rdata, **kwargs) as get_nwis calls it
create_metadict(rdata, kw) ==
    ( "_STAID" :> kw.STAID
   @@ "_start_date" :> kw.start_date
   @@ "_end_date" :> kw.end_date
   @@ "_param" :> kw.param
   @@ "_stat_code" :> kw.stat_code
   @@ "_service" :> kw.service
   @@ "_access_level" :> kw.access
   @@ "_url" :> kw.url
   @@ "_gap_tolerance" :> kw.gap_tol
   @@ "_gap_fill" :> PyBool(kw.gap_fill)
   @@ "_resolve_masking" :> PyBool(kw.resolve_masking)
   @@ "_approval" :> Unknown
   @@ "_site_name" :> or_unknown(rdata.siteName)
   @@ "_coords" :> <<or_unknown(rdata.latitude), or_unknown(rdata.longitude)>>
   @@ "_var_description" :> or_unknown(rdata.variableDescription) )

\* ---------------------------------------------------------------- state
VARIABLES
    frames,   \* the containers the caller holds: the one get_nwis returned, or
              \* after a fill_gaps the one it was called on and the one it
              \* derived; each has its rows and the identity of its _metadict
    dicts,    \* the metadata dictionaries, by identity
    last      \* the last call: operation, arguments, what it returned, raised
              \* (and in which function), printed and requested, and the
              \* target's rows and metadata as they were before it

vars == <<frames, dicts, last>>

NoCall ==
    [op |-> "", frame |-> 0, gap_tol |-> PyNone, window |-> <<PyNone, PyNone>>,
     ret |-> PyNone, index |-> {}, out |-> 0, raised |-> "", raised_in |-> "",
     warned |-> FALSE, message |-> <<>>, gets |-> 0, service |-> "", url |-> NoUrl,
     status_code |-> 0, rows |-> 0, kwargs |-> <<>>, data |-> PyNone, key |-> "",
     pre_rows |-> <<>>, pre_meta |-> <<>>]

Call(op, f) ==
    [NoCall EXCEPT !.op = op, !.frame = f,
                   !.pre_rows = frames[f].rows, !.pre_meta = dicts[frames[f].meta]]

Init ==
    /\ frames = <<>>
    /\ dicts = <<>>
    /\ last = NoCall

\* ------------------------------------------------ container operations
\* df.check_quals() / df.qualifier
CheckQuals(f) ==
    /\ last' = [Call("check_quals", f) EXCEPT !.ret = check_quals(frames[f].rows)]
    /\ UNCHANGED <<frames, dicts>>

\* df.nwisframe.qualifier, the accessor of nwisretrieval2 on the same table:
\* frozenset(NaN) raises TypeError
AccessorQualifier(f) ==
    /\ last' = IF \E i \in 1..Len(frames[f].rows) : frames[f].rows[i].qualifiers.null
               THEN [Call("nwisframe.qualifier", f) EXCEPT !.raised = "TypeError"]
               ELSE [Call("nwisframe.qualifier", f) EXCEPT !.ret = qualifier2(frames[f].rows)]
    /\ UNCHANGED <<frames, dicts>>

\* str(x) of a metadata value
str(x) == CASE x = PyNone -> "None" [] x = Unknown -> "Unknown" [] OTHER -> x

gap_tolerance_str(meta) == str(meta["_gap_tolerance"])

\* NWISFrame.gap_tolerance: the stored entry as it is
gap_tolerance(meta) == meta["_gap_tolerance"]

\* df.gap_tolerance
GapTolerance(f) ==
    /\ last' = [Call("gap_tolerance", f) EXCEPT !.ret = gap_tolerance(dicts[frames[f].meta])]
    /\ UNCHANGED <<frames, dicts>>

CheckApproval_cached_first(f) ==
    LET level == approval_level(frames[f].rows)
        cached == dicts[frames[f].meta]["_approval"]
    IN
    /\ last' = [Call("check_approval", f) EXCEPT
                    !.ret = IF cached = Unknown THEN level ELSE cached]
    /\ dicts' = [dicts EXCEPT ![frames[f].meta]["_approval"] = level]
    /\ UNCHANGED frames

\* df.check_approval() / df.approval: returns the level and caches it
CheckApproval(f) ==
    LET level == approval_level(frames[f].rows) IN
    /\ last' = [Call("check_approval", f) EXCEPT !.ret = level]
    /\ dicts' = [dicts EXCEPT ![frames[f].meta]["_approval"] = level]
    /\ UNCHANGED frames

\* df.resolve_masks(): assigns the value column in place
ResolveMasks(f) ==
    /\ frames' = [frames EXCEPT ![f].rows = resolve_masks(frames[f].rows)]
    /\ last' = Call("resolve_masks", f)
    /\ UNCHANGED dicts

\* df.gap_index(gap_tol)
GapIndex(f, gap_tol) ==
    LET r == gap_index(frames[f].rows, dicts[frames[f].meta], gap_tol) IN
    /\ last' = [Call("gap_index", f) EXCEPT
                    !.gap_tol = gap_tol, !.raised = r.raised, !.index = r.index]
    /\ UNCHANGED <<frames, dicts>>

\* df.check_gaps(gap_tol, start_date, end_date)
CheckGaps(f, gap_tol, start_date, end_date) ==
    LET r == check_gaps(frames[f].rows, dicts[frames[f].meta], gap_tol, start_date, end_date) IN
    /\ last' = [Call("check_gaps", f) EXCEPT
                    !.gap_tol = gap_tol, !.window = <<start_date, end_date>>,
                    !.ret = r.ret, !.warned = r.warned, !.raised = r.raised]
    /\ UNCHANGED <<frames, dicts>>

\* NWISFrame.__init__: a new container starts with create_metadict()
default_metadict ==
    [k \in {"_STAID", "_start_date", "_end_date", "_param", "_stat_code", "_service",
            "_access_level", "_url", "_gap_tolerance", "_gap_fill",
            "_resolve_masking", "_approval"} |-> Unknown]

FillGaps_without_finalize(f, gap_tol) ==
    LET r == fill_gaps(frames[f].rows, dicts[frames[f].meta], gap_tol) IN
    /\ IF r.ok
       THEN /\ frames' = <<[frames[f] EXCEPT !.meta = 1], [rows |-> r.rows, meta |-> 2]>>
            /\ dicts' = <<dicts[frames[f].meta],
                          [default_metadict EXCEPT !["_gap_tolerance"] = r.tol]>>
            /\ last' = [Call("fill_gaps", f) EXCEPT
                            !.gap_tol = gap_tol, !.frame = 1, !.out = 2]
       ELSE /\ last' = [Call("fill_gaps", f) EXCEPT
                            !.gap_tol = gap_tol, !.out = f, !.warned = TRUE]
            /\ UNCHANGED <<frames, dicts>>

\* df.fill_gaps(gap_tol): on success a new container that shares the
\* _metadict of the one it came from (DataFrame.__finalize__ copies the
\* reference) and stores the tolerance in it, and the caller keeps the
\* container it called on and the new one; on ValueError a warning and the
\* container itself
FillGaps(f, gap_tol) ==
    LET r == fill_gaps(frames[f].rows, dicts[frames[f].meta], gap_tol) IN
    /\ IF r.ok
       THEN /\ frames' = <<frames[f], [rows |-> r.rows, meta |-> frames[f].meta]>>
            /\ dicts' = [dicts EXCEPT ![frames[f].meta]["_gap_tolerance"] = r.tol]
            /\ last' = [Call("fill_gaps", f) EXCEPT
                            !.gap_tol = gap_tol, !.frame = 1, !.out = 2]
       ELSE /\ last' = [Call("fill_gaps", f) EXCEPT
                            !.gap_tol = gap_tol, !.out = f, !.warned = TRUE]
            /\ UNCHANGED <<frames, dicts>>

\* NWISFrame(data): __init__ gives the new container create_metadict(), the
\* all-Unknown defaults
Constructed(f, rows) ==
    /\ frames' = <<[frames[f] EXCEPT !.meta = 1], [rows |-> rows, meta |-> 2]>>
    /\ dicts' = <<dicts[frames[f].meta], default_metadict>>

Derived_without_finalize(f, rows) == Constructed(f, rows)

\* a pandas operation that derives a container: _constructor builds it and
\* __finalize__ then copies the _metadict reference of the one it came from
Derived(f, rows) ==
    /\ frames' = <<[frames[f] EXCEPT !.meta = 1], [rows |-> rows, meta |-> 1]>>
    /\ dicts' = <<dicts[frames[f].meta]>>

\* df.iloc[start:stop]
iloc(rows, start, stop) == SubSeq(rows, start + 1, stop)

Slice(f, start, stop) ==
    /\ Derived(f, iloc(frames[f].rows, start, stop))
    /\ last' = [Call("iloc", f) EXCEPT !.frame = 1, !.out = 2]

\* df.copy()
Copy(f) ==
    /\ Derived(f, frames[f].rows)
    /\ last' = [Call("copy", f) EXCEPT !.frame = 1, !.out = 2]

\* NWISFrame(df) on a container
Rewrap(f) ==
    /\ Constructed(f, frames[f].rows)
    /\ last' = [Call("NWISFrame", f) EXCEPT !.frame = 1, !.out = 2]

\* --------------------------------------------------------- the service
\* what the caller may pass to get_nwis: every date range from the first
\* date on and either stored tolerance for a plain instantaneous-values
\* query, and the other services and the gap_fill / resolve_masking
\* switches on the longest range
GapTols == {PyNone, "12H", "D"}
Services == {"iv", "dv", "xv"}
Query(start_date, end_date, service, gap_tol, gap_fill, resolve_masking) ==
    [STAID |-> "12301933", start_date |-> start_date, end_date |-> end_date,
     param |-> "00060", stat_code |-> "00003", service |-> service, access |-> "0",
     gap_tol |-> gap_tol, gap_fill |-> gap_fill, resolve_masking |-> resolve_masking]
FirstDate == CalendarDates[1]
LastDate == CalendarDates[Len(CalendarDates)]
PlainQueries ==
    {Query(FirstDate, e, "iv", t, FALSE, FALSE) : e \in Dates, t \in {PyNone, "D"}}
OtherQueries ==
    {Query(FirstDate, LastDate, sv, "D", FALSE, FALSE) : sv \in Services \ {"iv"}}
    \cup {Query(FirstDate, LastDate, "iv", "D", TRUE, TRUE),
          Query(FirstDate, LastDate, "iv", PyNone, TRUE, FALSE),
          Query(FirstDate, LastDate, "iv", PyNone, FALSE, TRUE)}

\* what NWIS may answer: a status and a JSON body whose rows carry the
\* station's wall-clock time with its UTC offset, the value as text and a
\* list of qualifier codes.  Bodies come in two families: rows at any
\* instants in any order (duplicates included) that alternate a plain and a
\* masked observation, and rows at consecutive instants with every kind of
\* observation.
Observations ==
    { [value |-> "5", qualifiers |-> <<"A">>],
      [value |-> "-999999", qualifiers |-> <<"P", "i">>] }
Alternating(i) ==
    IF i % 2 = 1 THEN [value |-> "2", qualifiers |-> <<"P">>]
    ELSE [value |-> "-999999", qualifiers |-> <<"A", "Ice">>]
JsonRow(t, o) ==
    [dateTime |-> [local |-> t, offset |-> "-07:00"],
     value |-> o.value, qualifiers |-> o.qualifiers]
GapRowLists ==
    UNION {{[i \in 1..n |-> JsonRow(ts[i], Alternating(i))] : ts \in [1..n -> Ticks]} :
                    n \in 0..MaxRows}
QualityRowLists ==
    UNION {{[i \in 1..n |-> JsonRow(i - 1, os[i])] : os \in [1..n -> Observations]} :
                    n \in 1..MaxRows}
JsonBody(rows) ==
    [rows |-> rows, siteName |-> "Libby Dam", latitude |-> "48.4",
     longitude |-> "-115.3", variableDescription |-> "Discharge"]

\* the calls made: a plain query answered by any body, and the other
\* queries answered by the bodies of consecutive rows
Calls ==
    {<<q, JsonBody(rows)>> : q \in PlainQueries, rows \in GapRowLists \cup QualityRowLists}
    \cup {<<q, JsonBody(rows)>> : q \in OtherQueries, rows \in QualityRowLists}
    \cup {<<q, JsonBody([i \in 1..MaxRows |-> JsonRow(i, Alternating(i))])>> : q \in OtherQueries}
StatusCodes == {200, 201, 404}

\* the station metadata a body may carry: a name, a latitude and a longitude
\* (zero included), a description, each possibly empty or left out
MetadataBodies ==
    {[rows |-> <<JsonRow(0, Alternating(1))>>, siteName |-> n, latitude |-> lat,
      longitude |-> long, variableDescription |-> d] :
        n \in {"Libby Dam", "", Missing}, lat \in {"48.4", "0", Missing},
        long \in {"-115.3", "0"}, d \in {"Discharge", "", Missing}}
MetadataCalls ==
    {<<Query(FirstDate, FirstDate, "iv", PyNone, FALSE, FALSE), body>> : body \in MetadataBodies}

\* pd.to_numeric on the value text
to_numeric(text) ==
    CASE text = "2" -> Num(2) [] text = "5" -> Num(5) [] text = "-999999" -> Num(MaskValue)

\* process_nwis_response: one row per JSON row in response order, the
\* timestamp parsed and its offset dropped (tz_localize(None)), the value
\* made numeric
process_nwis_response(rdata) ==
    [i \in 1..Len(rdata.rows) |->
        [dateTime |-> rdata.rows[i].dateTime.local,
         value |-> to_numeric(rdata.rows[i].value),
         qualifiers |-> Quals(rdata.rows[i].qualifiers)]]

\* get_nwis: build the URL, GET it once, flatten the body, wrap it with its
\* metadata, then fill gaps and resolve masks as asked and run the three
\* checks.  A body without rows flattens to a frame without columns, so
\* process_nwis_response raises KeyError at dataframe["dateTime"] and the
\* dataframe.empty branch after it is never taken; a body that lacks a
\* metadata field raises KeyError in create_metadict.  One behaviour follows
\* the containers of one fetched series; failed calls may be repeated.
GetNwis(q, status_code, rdata) ==
    LET url == build_url(q.STAID, q.start_date, q.end_date, q.param,
                         q.stat_code, q.service, q.access)
        response == query_url(url, status_code)
        call == [NoCall EXCEPT !.op = "get_nwis", !.gap_tol = q.gap_tol,
                               !.service = q.service, !.url = url,
                               !.kwargs = << <<"STAID", q.STAID>>,
                                             <<"start_date", q.start_date>>,
                                             <<"end_date", q.end_date>>,
                                             <<"param", q.param>>,
                                             <<"stat_code", q.stat_code>>,
                                             <<"access", q.access>> >>]
        sent == [call EXCEPT !.gets = response.gets, !.status_code = status_code,
                             !.rows = Len(rdata.rows)]
        dataframe == process_nwis_response(rdata)
        metadict == create_metadict(rdata,
                        [STAID |-> q.STAID, start_date |-> q.start_date,
                         end_date |-> q.end_date, param |-> q.param,
                         stat_code |-> q.stat_code, service |-> q.service,
                         access |-> q.access, url |-> url_text(url), gap_tol |-> q.gap_tol,
                         gap_fill |-> q.gap_fill, resolve_masking |-> q.resolve_masking])
        dofill == q.gap_fill /\ q.gap_tol \notin {PyNone, ""}
        filled == fill_gaps(dataframe, metadict, q.gap_tol)
        rows1 == IF dofill THEN filled.rows ELSE dataframe
        rows2 == IF q.resolve_masking THEN resolve_masks(rows1) ELSE rows1
        meta2 == [metadict EXCEPT !["_approval"] = approval_level(rows2)]
        gaps == check_gaps(rows2, meta2, q.gap_tol, PyNone, PyNone)
    IN
    /\ IF url = NoUrl
       THEN /\ last' = [call EXCEPT !.raised = "KeyError", !.raised_in = "build_url"]
            /\ UNCHANGED <<frames, dicts>>
       ELSE IF response.raised # ""
       THEN /\ last' = [sent EXCEPT !.raised = response.raised, !.raised_in = "query_url",
                                    !.message = response.message]
            /\ UNCHANGED <<frames, dicts>>
       ELSE IF Len(rdata.rows) = 0
       THEN /\ last' = [sent EXCEPT !.raised = "KeyError",
                                    !.raised_in = "process_nwis_response"]
            /\ UNCHANGED <<frames, dicts>>
       ELSE IF metadata_raises(rdata)
       THEN /\ last' = [sent EXCEPT !.raised = "KeyError", !.raised_in = "create_metadict",
                                    !.data = rdata]
            /\ UNCHANGED <<frames, dicts>>
       ELSE /\ frames' = <<[rows |-> rows2, meta |-> 1]>>
            /\ dicts' = <<meta2>>
            /\ last' = [sent EXCEPT !.out = 1, !.data = rdata,
                            !.warned = gaps.warned \/ (dofill /\ ~filled.ok)]

\* ------------------------------------------------- register.py variant
\* register.NWISFrame._valid_query_parameters
valid_query_parameters ==
    {"format", "parameterCd", "startDT", "endDT", "sites", "siteStatus", "access"}

\* register.NWISFrame._base_urls[service]; "" stands for KeyError
base_urls(service) ==
    CASE service = "iv" -> "https://nwis.waterservices.usgs.gov/nwis/iv/"
      [] service = "dv" -> "https://nwis.waterservices.usgs.gov/nwis/dv/"
      [] OTHER -> ""

\* register.NWISFrame.filter_parameters: the keyword arguments, in order,
\* whose name is a valid query parameter
filter_parameters(kwargs) ==
    SelectSeq(kwargs, LAMBDA kv : kv[1] \in valid_query_parameters)

\* kwargs.get(name) / name in kwargs / kwargs.pop(name)
Has(kwargs, name) == \E i \in 1..Len(kwargs) : kwargs[i][1] = name
Get(kwargs, name) == kwargs[CHOOSE i \in 1..Len(kwargs) : kwargs[i][1] = name][2]
Pop(kwargs, name) == SelectSeq(kwargs, LAMBDA kv : kv[1] # name)

\* register.NWISFrame.get_nwis(**kwargs): pop the service, look up its
\* endpoint, GET it with the filtered keyword arguments as query parameters
\* and wrap the flattened body
RegisterGetNwis(kwargs, rdata) ==
    LET call == [NoCall EXCEPT !.op = "NWISFrame.get_nwis", !.kwargs = kwargs]
        service == Get(kwargs, "service")
        url == [base |-> base_urls(service),
                query |-> filter_parameters(Pop(kwargs, "service"))]
        sent == [call EXCEPT !.service = service, !.url = url, !.gets = 1,
                             !.status_code = 200, !.rows = Len(rdata.rows)]
    IN
    /\ IF ~Has(kwargs, "service")
       THEN /\ last' = [call EXCEPT !.raised = "KeyError", !.raised_in = "get_nwis"]
            /\ UNCHANGED <<frames, dicts>>
       ELSE IF base_urls(service) = ""
       THEN /\ last' = [call EXCEPT !.service = service, !.raised = "KeyError",
                                    !.raised_in = "get_nwis"]
            /\ UNCHANGED <<frames, dicts>>
       ELSE IF Len(rdata.rows) = 0
       THEN /\ last' = [sent EXCEPT !.raised = "KeyError",
                                    !.raised_in = "process_nwis_response"]
            /\ UNCHANGED <<frames, dicts>>
       ELSE /\ frames' = <<[rows |-> process_nwis_response(rdata), meta |-> 1]>>
            /\ dicts' = << <<>> >>
            /\ last' = [sent EXCEPT !.out = 1]

\* register.get_nwis(**kwargs), the module-level function: its first
\* statement names url, which nothing defines
RegisterModuleGetNwis(kwargs) ==
    /\ last' = [NoCall EXCEPT !.op = "register.get_nwis", !.kwargs = kwargs,
                              !.raised = "NameError", !.raised_in = "get_nwis"]
    /\ UNCHANGED <<frames, dicts>>

\* the keyword arguments a caller may pass: any of these, in this order
KeywordArguments ==
    << <<"format", "json">>, <<"sites", "12323233">>, <<"startDT", "2022-07-01">>,
       <<"endDT", "2022-08-01">>, <<"statCd", "00003">>, <<"parameterCd", "00060">>,
       <<"access", "0">>, <<"edward", "a cat">> >>
Kwargs ==
    {[i \in 1..Len(SortedSeq(S)) |-> KeywordArguments[SortedSeq(S)[i]]] :
        S \in SUBSET (1..Len(KeywordArguments))}
ServiceKwargs ==
    Kwargs \cup {Append(kw, <<"service", sv>>) : kw \in Kwargs, sv \in Services}

\* ------------------------------------------------------ nwis.py variant
\* A JSON document: a scalar, a list of documents, or a dict, kept as its
\* (key, document) items in insertion order.
Scalar(v) == [t |-> "scalar", v |-> v, items |-> <<>>]
List(items) == [t |-> "list", v |-> "", items |-> items]
Dict(items) == [t |-> "dict", v |-> "", items |-> items]

item_generator_first_only(data, key) ==
    IF data.t = "dict" /\ \E i \in 1..Len(data.items) : data.items[i][1] = key
    THEN <<data.items[CHOOSE i \in 1..Len(data.items) : data.items[i][1] = key][2]>>
    ELSE <<>>

\* nwis.NWISFrame.item_generator(data, key), as the list of what it yields:
\* in a dict the value of an entry named key, and what the generator yields
\* for the value of any other entry; in a list what it yields for each item
RECURSIVE item_generator(_, _), yield_from_items(_, _, _)
yield_from_items(t, items, key) ==
    IF items = <<>> THEN <<>>
    ELSE (IF t = "dict"
          THEN (IF items[1][1] = key THEN <<items[1][2]>>
                ELSE item_generator(items[1][2], key))
          ELSE item_generator(items[1], key))
         \o yield_from_items(t, Tail(items), key)
item_generator(data, key) ==
    IF data.t \in {"dict", "list"} THEN yield_from_items(data.t, data.items, key) ELSE <<>>

\* next(NWISFrame.item_generator(data, key)) or list(...) by a caller
ItemGenerator(data, key) ==
    /\ last' = [NoCall EXCEPT !.op = "item_generator", !.data = data, !.key = key,
                              !.ret = item_generator(data, key)]
    /\ UNCHANGED <<frames, dicts>>

\* the documents searched: scalars, lists and dicts of them, lists and
\* dicts of those, and each of these wrapped once more
JsonKeys == {"queryURL", "siteName"}
SearchKeys == {"siteName", "variableName"}
Lists(S) == UNION {[1..n -> S] : n \in 0..MaxItems}
Dicts(S) ==
    UNION {{[i \in 1..n |-> <<ks[i], vs[i]>>] :
                ks \in {f \in [1..n -> JsonKeys] : \A i, j \in 1..n : f[i] = f[j] => i = j},
                vs \in [1..n -> S]} : n \in 0..MaxItems}
Nested(S) == S \cup {List(l) : l \in Lists(S)} \cup {Dict(d) : d \in Dicts(S)}
Wrapped(S) == S \cup {List(<<d>>) : d \in S} \cup {Dict(<< <<k, d>> >>) : k \in JsonKeys, d \in S}
JsonDocuments == Wrapped(Nested(Nested({Scalar("Blacktail Creek")})))

\* ------------------------------------------------------------------ next
Windows == {<<PyNone, PyNone>>, <<FirstDate, FirstDate>>}

Next ==
    \/ /\ frames = <<>>
       /\ \E c \in Calls, status_code \in StatusCodes : GetNwis(c[1], status_code, c[2])
    \/ \E f \in 1..Len(frames) : CheckQuals(f)
    \/ \E f \in 1..Len(frames) : AccessorQualifier(f)
    \/ \E f \in 1..Len(frames) : CheckApproval(f)
    \/ \E f \in 1..Len(frames) : GapTolerance(f)
    \/ \E f \in 1..Len(frames) : ResolveMasks(f)
    \/ \E f \in 1..Len(frames), gap_tol \in GapTols : GapIndex(f, gap_tol)
    \/ \E f \in 1..Len(frames), gap_tol \in GapTols, w \in Windows :
            CheckGaps(f, gap_tol, w[1], w[2])
    \/ \E f \in 1..Len(frames), gap_tol \in GapTols : FillGaps(f, gap_tol)

Spec == Init /\ [][Next]_vars

\* the containers derived from a fetched one by pandas operations
NextDerive ==
    \/ /\ frames = <<>>
       /\ \E c \in Calls : GetNwis(c[1], 200, c[2])
    \/ \E f \in 1..Len(frames), start, stop \in 0..MaxRows :
            start <= stop /\ stop <= Len(frames[f].rows) /\ Slice(f, start, stop)
    \/ \E f \in 1..Len(frames) : Copy(f)
    \/ \E f \in 1..Len(frames) : Rewrap(f)
    \/ \E f \in 1..Len(frames), gap_tol \in GapTols : FillGaps(f, gap_tol)

SpecDerive == Init /\ [][NextDerive]_vars

\* gap checks of a fetched container over every window of calendar dates,
\* a date left out included
AllWindows == (Dates \cup {PyNone}) \X (Dates \cup {PyNone})

NextWindows ==
    \/ /\ frames = <<>>
       /\ \E c \in Calls : GetNwis(c[1], 200, c[2])
    \/ \E f \in 1..Len(frames), gap_tol \in GapTols, w \in AllWindows :
            CheckGaps(f, gap_tol, w[1], w[2])

SpecWindows == Init /\ [][NextWindows]_vars

\* the gap operations on a fetched container, on the container fill_gaps
\* returns and on a container constructed from either, whose stored
\* tolerance is Unknown
NextTolerance ==
    \/ /\ frames = <<>>
       /\ \E c \in Calls : GetNwis(c[1], 200, c[2])
    \/ \E f \in 1..Len(frames) : Rewrap(f)
    \/ \E f \in 1..Len(frames), gap_tol \in GapTols : GapIndex(f, gap_tol)
    \/ \E f \in 1..Len(frames), gap_tol \in GapTols :
            CheckGaps(f, gap_tol, PyNone, PyNone)
    \/ \E f \in 1..Len(frames), gap_tol \in GapTols : FillGaps(f, gap_tol)

SpecTolerance == Init /\ [][NextTolerance]_vars

\* the quality flags of a fetched container and of the containers derived
\* from it: slices, filled and unmasked containers, each checked at any time
NextApproval ==
    \/ /\ frames = <<>>
       /\ \E rows \in QualityRowLists, gap_tol \in {PyNone, "D"} :
            GetNwis(Query(FirstDate, LastDate, "iv", gap_tol, FALSE, FALSE), 200, JsonBody(rows))
    \/ \E f \in 1..Len(frames), start, stop \in 0..MaxRows :
            start <= stop /\ stop <= Len(frames[f].rows) /\ Slice(f, start, stop)
    \/ \E f \in 1..Len(frames), gap_tol \in GapTols : FillGaps(f, gap_tol)
    \/ \E f \in 1..Len(frames) : ResolveMasks(f)
    \/ \E f \in 1..Len(frames) : CheckApproval(f)
    \/ \E f \in 1..Len(frames) : CheckQuals(f)

SpecApproval == Init /\ [][NextApproval]_vars

\* the request each get_nwis variant sends: one call per behaviour
NextRequests ==
    \/ /\ last = NoCall
       /\ \E c \in Calls \cup MetadataCalls, status_code \in StatusCodes :
            GetNwis(c[1], status_code, c[2])
    \/ /\ last = NoCall
       /\ \E kwargs \in ServiceKwargs, n \in 0..1 :
            RegisterGetNwis(kwargs, JsonBody([i \in 1..n |-> JsonRow(i, Alternating(i))]))
    \/ /\ last = NoCall
       /\ \E kwargs \in ServiceKwargs : RegisterModuleGetNwis(kwargs)

SpecRequests == Init /\ [][NextRequests]_vars

\* searches of a JSON document for a key
NextJson ==
    /\ last = NoCall
    /\ \E data \in JsonDocuments, key \in SearchKeys : ItemGenerator(data, key)

SpecJson == Init /\ [][NextJson]_vars

\* ------------------------------------------------ qwpretreival.py (WQP)
\* the values a keyword argument may hold: a str, an int, a list of str
StrValue(s) == [type |-> "str", v |-> s, items |-> <<>>]
IntValue(s) == [type |-> "int", v |-> s, items |-> <<>>]
StrList(items) == [type |-> "list", v |-> "", items |-> items]

\* REST_PARAMETERS of _validate_url_kwargs
REST_PARAMETERS ==
    {"bBox", "lat", "long", "within", "countrycode", "statecode", "countycode",
     "organization", "siteid", "huc", "sampleMedia", "characteristicName", "pCode",
     "activityId", "startDateLo", "startDateHi", "mimeType", "Zip", "providers",
     "sorted", "dataProfile"}

\* WEB_SERVICES_DICT.get(service, "Invalid Service")
get_base_url(service) ==
    CASE service = "project" -> "https://www.waterqualitydata.us/data/Project/search?"
      [] service = "site metadata" -> "https://www.waterqualitydata.us/data/Station/search?"
      [] service = "results" -> "https://www.waterqualitydata.us/data/Result/search?"
      [] service = "result detection" ->
            "https://www.waterqualitydata.us/data/ResultDetectionQuantitationLimit/search?"
      [] service = "activity" -> "https://www.waterqualitydata.us/data/Activity/search?"
      [] service = "activity metric" ->
            "https://www.waterqualitydata.us/data/ActivityMetric/search?"
      [] service = "biological metric" ->
            "https://www.waterqualitydata.us/data/BiologicalMetric/search?"
      [] service = "project weighting" ->
            "https://www.waterqualitydata.us/data/ProjectMonitoringLocationWeighting/search?"
      [] OTHER -> "Invalid Service"

\* sep.join(items)
RECURSIVE join(_, _)
join(sep, items) ==
    IF items = <<>> THEN ""
    ELSE IF Len(items) = 1 THEN items[1]
    ELSE items[1] \o sep \o join(sep, Tail(items))

\* kwargs[name] = value: an existing key keeps its place, a new one is last
Put(kwargs, name, value) ==
    IF Has(kwargs, name)
    THEN [i \in 1..Len(kwargs) |->
            IF kwargs[i][1] = name THEN <<name, value>> ELSE kwargs[i]]
    ELSE Append(kwargs, <<name, value>>)

\* the names of the keyword arguments, and the orders a set of names may be
\* iterated in
Keys(kwargs) == {kwargs[i][1] : i \in 1..Len(kwargs)}
Orders(S) ==
    {order \in [1..Cardinality(S) -> S] :
        \A i, j \in 1..Cardinality(S) : order[i] = order[j] => i = j}

\* _validate_url_kwargs: the valid keyword arguments, in the iteration order
\* of the set REST_PARAMETERS & set(kwargs.keys())
validate_url_kwargs(kwargs, order) ==
    [i \in 1..Len(order) |-> <<order[i], Get(kwargs, order[i])>>]

\* the query as a variant would build it with csv as a default format only
construct_url_query_default_format(kwargs, order) ==
    LET forced == IF Has(kwargs, "mimeType") THEN kwargs
                  ELSE Put(kwargs, "mimeType", StrValue("csv"))
        joined == IF Has(forced, "pCode") /\ Get(forced, "pCode").type = "list"
                  THEN Put(forced, "pCode", StrValue(join(";", Get(forced, "pCode").items)))
                  ELSE forced
        prefixed == IF Has(joined, "siteid")
                    THEN Put(joined, "siteid", StrValue("USGS-" \o Get(joined, "siteid").v))
                    ELSE joined
        valid_kwargs == validate_url_kwargs(prefixed, order)
    IN  IF Has(joined, "siteid") /\ Get(joined, "siteid").type # "str"
        THEN [raised |-> "TypeError", query |-> <<>>]
        ELSE IF \E i \in 1..Len(valid_kwargs) : valid_kwargs[i][2].type # "str"
        THEN [raised |-> "TypeError", query |-> <<>>]
        ELSE [raised |-> "",
              query |-> [i \in 1..Len(valid_kwargs) |->
                            <<valid_kwargs[i][1], valid_kwargs[i][2].v>>]]

\* _construct_url_query(**kwargs): force mimeType to csv, join a list pCode
\* with ";", prefix siteid ("USGS-" + a value that is no str is a
\* TypeError), keep the valid pairs and join key and value with "="
\* (TypeError again for a value that is no str).  The query is the sequence
\* of its pairs; query_text renders them joined with "&".
construct_url_query(kwargs, order) ==
    LET forced == Put(kwargs, "mimeType", StrValue("csv"))
        joined == IF Has(forced, "pCode") /\ Get(forced, "pCode").type = "list"
                  THEN Put(forced, "pCode", StrValue(join(";", Get(forced, "pCode").items)))
                  ELSE forced
        prefixed == IF Has(joined, "siteid")
                    THEN Put(joined, "siteid", StrValue("USGS-" \o Get(joined, "siteid").v))
                    ELSE joined
        valid_kwargs == validate_url_kwargs(prefixed, order)
    IN  IF Has(joined, "siteid") /\ Get(joined, "siteid").type # "str"
        THEN [raised |-> "TypeError", query |-> <<>>]
        ELSE IF \E i \in 1..Len(valid_kwargs) : valid_kwargs[i][2].type # "str"
        THEN [raised |-> "TypeError", query |-> <<>>]
        ELSE [raised |-> "",
              query |-> [i \in 1..Len(valid_kwargs) |->
                            <<valid_kwargs[i][1], valid_kwargs[i][2].v>>]]

\* the names _validate_url_kwargs keeps of the keyword arguments
valid_keys(kwargs) == REST_PARAMETERS \cap (Keys(kwargs) \cup {"mimeType"})

\* _construct_url(service, **kwargs): base_url + url_args
construct_url(service, kwargs, order) ==
    LET url_args == construct_url_query(kwargs, order)
    IN  [raised |-> url_args.raised,
         url |-> [base |-> get_base_url(service), query |-> url_args.query]]

\* pd.read_csv treats a string with a URL scheme as a URL and any other
\* string as the path of a local file
is_url(url) == url.base # "Invalid Service"

\* a direct call of _construct_url_query(**kwargs)
ConstructUrlQuery(kwargs, order) ==
    LET url_args == construct_url_query(kwargs, order)
    IN
    /\ last' = [NoCall EXCEPT !.op = "_construct_url_query", !.kwargs = kwargs,
                              !.raised = url_args.raised,
                              !.raised_in = IF url_args.raised = "" THEN ""
                                            ELSE "_construct_url_query",
                              !.url = [base |-> "", query |-> url_args.query]]
    /\ UNCHANGED <<frames, dicts>>

\* getqwp(siteid, startDateLo, service, **kwargs): construct the URL, read
\* it as CSV (rows records answered; found says whether a local file of that
\* name exists when the string is no URL), warn when the table is empty
GetQwp(siteid, startDateLo, service, kwargs, order, rows, found) ==
    LET passed == <<<<"siteid", siteid>>, <<"startDateLo", startDateLo>>>> \o kwargs
        built == construct_url(service, passed, order)
        call == [NoCall EXCEPT !.op = "getqwp", !.service = service, !.kwargs = passed]
        read == [call EXCEPT !.url = built.url,
                             !.gets = IF is_url(built.url) THEN 1 ELSE 0]
    IN
    /\ IF built.raised # ""
       THEN last' = [call EXCEPT !.raised = built.raised,
                                 !.raised_in = "_construct_url_query"]
       ELSE IF ~is_url(built.url) /\ ~found
       THEN last' = [read EXCEPT !.raised = "FileNotFoundError", !.raised_in = "read_csv"]
       ELSE last' = [read EXCEPT !.ret = "DataFrame", !.rows = rows, !.warned = (rows = 0)]
    /\ UNCHANGED <<frames, dicts>>

\* the calls made: station ids as str and as int, a pCode as str and as list,
\* a caller's own mimeType, a keyword WQP does not know
SiteIds == {StrValue("433615110440001"), IntValue("433615110440001")}
WqpServices == {"results", "activity", "result"}
WqpKeywords ==
    { <<>>,
      << <<"pCode", StrValue("00400")>> >>,
      << <<"pCode", StrList(<<"00400", "00010">>)>> >>,
      << <<"mimeType", StrValue("xml")>> >>,
      << <<"zip", StrValue("yes")>> >>,
      << <<"pCode", StrList(<<"00400", "00010">>)>>, <<"mimeType", StrValue("xml")>> >>,
      << <<"zip", StrValue("yes")>>, <<"pCode", StrValue("00400")>> >> }
DirectKeywords ==
    WqpKeywords \cup {<<<<"siteid", s>>>> \o kw : s \in SiteIds, kw \in WqpKeywords}

\* one WQP call per behaviour
NextWqp ==
    \/ /\ last = NoCall
       /\ \E kwargs \in DirectKeywords :
            \E order \in Orders(valid_keys(kwargs)) : ConstructUrlQuery(kwargs, order)
    \/ /\ last = NoCall
       /\ \E siteid \in SiteIds, service \in WqpServices, kwargs \in WqpKeywords,
             rows \in 0..1, found \in BOOLEAN :
            \E order \in Orders(valid_keys(
                    <<<<"siteid", siteid>>, <<"startDateLo", StrValue("10-01-2020")>>>> \o kwargs)) :
                GetQwp(siteid, StrValue("10-01-2020"), service, kwargs, order, rows, found)

SpecWqp == Init /\ [][NextWqp]_vars

\* ================================================================ claims
\* some row of rows carries the qualifier code
HasCode(rows, code) ==
    \E i \in 1..Len(rows) :
        /\ ~rows[i].qualifiers.null
        /\ \E j \in 1..Len(rows[i].qualifiers.codes) : rows[i].qualifiers.codes[j] = code

HasNullQualifiers(rows) == \E i \in 1..Len(rows) : rows[i].qualifiers.null

\* the container the last call was made on, and the one it returned
Target == frames[last.frame]
Returned == frames[last.out]

\* C1: check_approval returns "Provisional" iff some row's qualifier set
\* contains "P" and "Approved" otherwise; rows without qualifiers do not count.
C1_ApprovalIffProvisional ==
    last.op = "check_approval" =>
        /\ last.ret = (IF HasCode(last.pre_rows, "P") THEN "Provisional" ELSE "Approved")
        /\ last.raised = ""

C1_Witness ==
    /\ last.op = "check_approval"
    /\ last.ret = "Provisional"
    /\ HasNullQualifiers(last.pre_rows)
    /\ HasCode(last.pre_rows, "A")

\* C2 as claimed: the qualifier flag is "Ice" iff some row's qualifier set
\* contains "Ice" or "i", and otherwise it is the string "None".
C2_QualifierIceElseNone ==
    last.op = "check_quals" =>
        last.ret = (IF HasCode(last.pre_rows, "Ice") \/ HasCode(last.pre_rows, "i")
                    THEN "Ice" ELSE "None")

\* C2 amended: check_quals returns "Ice" iff some row's qualifier set
\* contains "Ice" or "i" and otherwise the Unknown sentinel; only the
\* accessor variant's qualifier property returns the string "None" instead.
C2_QualifierIceElseUnknown ==
    /\ last.op = "check_quals" =>
        last.ret = (IF HasCode(last.pre_rows, "Ice") \/ HasCode(last.pre_rows, "i")
                    THEN "Ice" ELSE Unknown)
    /\ (last.op = "nwisframe.qualifier" /\ last.raised = "") =>
        last.ret = (IF HasCode(last.pre_rows, "Ice") \/ HasCode(last.pre_rows, "i")
                    THEN "Ice" ELSE "None")

C2_Witness ==
    /\ last.op = "check_quals"
    /\ last.ret = "Ice"
    /\ HasCode(last.pre_rows, "i")
    /\ ~HasCode(last.pre_rows, "Ice")

C4_ResolveMasksIdempotent ==
    last.op = "resolve_masks" => resolve_masks(Target.rows) = Target.rows

C4_Witness ==
    /\ last.op = "resolve_masks"
    /\ Target.rows # last.pre_rows

\* the tolerance a call resolves to, from its argument and the stored one
Stored == last.pre_meta["_gap_tolerance"]
Unresolvable == last.gap_tol = PyNone /\ Stored \in {PyNone, Unknown}
Resolved == IF last.gap_tol # PyNone THEN last.gap_tol ELSE Stored

\* the expected and the actual timestamps of the container before the call
Expected ==
    date_range(last.pre_meta["_start_date"], last.pre_meta["_end_date"], Resolved)
Actual == {last.pre_rows[i].dateTime : i \in 1..Len(last.pre_rows)}

\* C5 as claimed: gap_index is empty iff the actual timestamp set equals the
\* expected sequence.
C5_GapIndexEmptyIffEqual ==
    (last.op = "gap_index" /\ last.raised = "") =>
        (last.index = {} <=> Actual = Expected)

\* C5 amended: for a resolvable tolerance gap_index is empty iff every
\* timestamp of the expected sequence is in the actual timestamp set, which
\* may hold further timestamps; it is the expected ones missing from the
\* actual ones.
C5_GapIndexEmptyIffCovered ==
    (last.op = "gap_index" /\ ~Unresolvable) =>
        /\ last.raised = ""
        /\ last.index = {} <=> Expected \subseteq Actual
        /\ last.index = {t \in Expected : t \notin Actual}

C5_Witness ==
    /\ last.op = "gap_index"
    /\ last.raised = ""
    /\ last.index = {}
    /\ Actual # Expected

\* C6 as claimed: check_gaps returns Unknown when no tolerance resolves and
\* otherwise True iff gap_index at the resolved tolerance is non-empty.
C6_CheckGapsThreeOutcomes ==
    last.op = "check_gaps" =>
        last.ret = (IF Unresolvable THEN Unknown
                    ELSE IF Expected \ Actual # {} THEN "True" ELSE "False")

\* the part of the missing timestamps a call with both window dates looks at
InWindow ==
    IF last.window[1] # PyNone /\ last.window[2] # PyNone
    THEN {t \in Expected \ Actual :
            /\ Timestamp(last.window[1]) <= t
            /\ t < Timestamp(last.window[2]) + to_offset("D")}
    ELSE Expected \ Actual

\* C6 amended: check_gaps returns Unknown, with a warning, exactly when no
\* tolerance resolves; otherwise it returns True if gap_index at the
\* resolved tolerance, narrowed to the window when both start_date and
\* end_date are given, is non-empty, and False if it is empty.
C6_CheckGapsWindowed ==
    last.op = "check_gaps" =>
        /\ last.ret = (IF Unresolvable THEN Unknown
                       ELSE IF InWindow # {} THEN "True" ELSE "False")
        /\ Unresolvable => last.warned
        /\ last.raised = ""

C6_Witness ==
    /\ last.op = "check_gaps"
    /\ last.gap_tol = PyNone
    /\ Stored = "D"
    /\ last.ret = "False"
    /\ Expected \ Actual # {}

\* the index of the returned container, in row order
ReturnedIndex == [i \in 1..Len(Returned.rows) |-> Returned.rows[i].dateTime]

\* C7: for any series, duplicate or off-grid timestamps included, and any
\* resolvable tolerance, fill_gaps returns a series whose index is exactly
\* the expected sequence.
C7_FillGapsIndexIsExpected ==
    (last.op = "fill_gaps" /\ ~Unresolvable) => ReturnedIndex = SortedSeq(Expected)

\* C8: fill_gaps keeps every row of the input with its value and
\* qualifiers, and every row of the result that was not in the input has a
\* missing value.
C8_FillGapsKeepsObservations ==
    last.op = "fill_gaps" =>
        /\ \A i \in 1..Len(last.pre_rows) :
                \E k \in 1..Len(Returned.rows) : Returned.rows[k] = last.pre_rows[i]
        /\ \A k \in 1..Len(Returned.rows) :
                Returned.rows[k].dateTime \notin Actual => Returned.rows[k].value = NaN

\* C9: with no tolerance supplied and none stored, fill_gaps does not
\* raise: it warns and returns the container it was called on, with the
\* same rows, index and metadata.
C9_FillGapsWithoutTolerance ==
    (last.op = "fill_gaps" /\ Unresolvable) =>
        /\ last.raised = ""
        /\ last.warned
        /\ last.out = last.frame
        /\ Returned.rows = last.pre_rows
        /\ dicts[Returned.meta] = last.pre_meta

C9_Witness ==
    /\ last.op = "fill_gaps"
    /\ Unresolvable
    /\ last.warned
    /\ last.out = last.frame
    /\ Len(Returned.rows) > 0

\* C10 as claimed: the container fill_gaps returns has metadata equal to the
\* metadata the original had before the call.
C10_FillGapsKeepsMetadata ==
    last.op = "fill_gaps" => dicts[Returned.meta] = last.pre_meta

\* C10 amended: the container fill_gaps returns has every metadata entry the
\* original had before the call, with the same value, except that
\* _gap_tolerance holds the tolerance the call resolved when the table was
\* reindexed; when it was not reindexed the metadata is unchanged.
C10_FillGapsKeepsMetadataButTolerance ==
    last.op = "fill_gaps" =>
        /\ DOMAIN dicts[Returned.meta] = DOMAIN last.pre_meta
        /\ \A k \in DOMAIN last.pre_meta :
                k # "_gap_tolerance" => dicts[Returned.meta][k] = last.pre_meta[k]
        /\ dicts[Returned.meta]["_gap_tolerance"] =
                (IF last.out # last.frame THEN Resolved ELSE Stored)

C10_Witness ==
    /\ last.op = "fill_gaps"
    /\ last.out # last.frame
    /\ Stored = PyNone
    /\ dicts[Returned.meta]["_gap_tolerance"] = "12H"
    /\ dicts[Returned.meta]["_STAID"] = "12301933"

\* C11 as claimed: after a slice, a frequency reindex, a copy or a re-wrap
\* through the NWISFrame constructor, the derived container's metadata map
\* equals the original's.
C11_DerivedKeepsMetadata ==
    (last.op \in {"iloc", "copy", "fill_gaps", "NWISFrame"} /\ last.out # last.frame) =>
        dicts[Returned.meta] = dicts[Target.meta]

\* C11 amended: after a slice, a frequency reindex or a copy the derived
\* container holds the very metadata map of the original (for a slice and a
\* copy with the entries the original had before); after a re-wrap through
\* the NWISFrame constructor it holds the all-Unknown defaults.
C11_DerivedKeepsMetadataUnlessRewrapped ==
    /\ (last.op \in {"iloc", "copy", "fill_gaps"} /\ last.out # last.frame) =>
            /\ Returned.meta = Target.meta
            /\ last.op # "fill_gaps" => dicts[Returned.meta] = last.pre_meta
    /\ last.op = "NWISFrame" =>
            /\ dicts[Returned.meta] = default_metadict
            /\ dicts[Target.meta] = last.pre_meta

C11_Witness ==
    /\ last.op = "iloc"
    /\ Len(Returned.rows) = 1
    /\ Len(Target.rows) = 2
    /\ dicts[Returned.meta]["_STAID"] = "12301933"
    /\ dicts[Returned.meta]["_gap_tolerance"] = "12H"

\* the printed message holds the text
Cites(message, text) == \E i \in 1..Len(message) : message[i] = text

\* C12 as claimed: get_nwis with a service other than "iv" and "dv" fails with
\* an InvalidServiceError raised by the URL builder and issues no request.
C12_InvalidServiceError ==
    (last.op = "get_nwis" /\ last.service \notin {"iv", "dv"}) =>
        /\ last.raised = "InvalidServiceError"
        /\ last.raised_in = "build_url"
        /\ last.gets = 0

\* C12 amended: get_nwis with a service other than "iv" and "dv" fails with the
\* KeyError of the URL builder's lookup of the service, issues no request
\* and returns no container; with "iv" or "dv" the URL builder does not fail.
C12_UnknownServiceKeyError ==
    last.op = "get_nwis" =>
        IF last.service \notin {"iv", "dv"}
        THEN /\ last.raised = "KeyError"
             /\ last.raised_in = "build_url"
             /\ last.gets = 0
             /\ last.out = 0
             /\ frames = <<>>
        ELSE last.raised_in # "build_url"

C12_Witness ==
    /\ last.op = "get_nwis"
    /\ last.service = "xv"
    /\ last.raised = "KeyError"
    /\ last.gets = 0

\* C13 as claimed: the fetcher returns the response for every 2xx status and
\* fails fatally for every other status, printing the URL and the reason,
\* and then no container is produced.
C13_FetchSucceedsOnAny2xx ==
    (last.op = "get_nwis" /\ last.gets > 0) =>
        IF last.status_code \in 200..299
        THEN last.raised_in # "query_url"
        ELSE /\ last.raised = "SystemExit"
             /\ last.raised_in = "query_url"
             /\ Cites(last.message, url_text(last.url))
             /\ Cites(last.message, reason(last.status_code))
             /\ last.out = 0
             /\ frames = <<>>

\* C13 amended: the fetcher returns the response for status 200 only and
\* fails fatally (SystemExit) for every other status, 2xx included, printing
\* the URL and the reason; then no container is produced.
C13_FetchSucceedsOn200Only ==
    (last.op = "get_nwis" /\ last.gets > 0) =>
        IF last.status_code = 200
        THEN last.raised_in # "query_url"
        ELSE /\ last.raised = "SystemExit"
             /\ last.raised_in = "query_url"
             /\ Cites(last.message, url_text(last.url))
             /\ Cites(last.message, reason(last.status_code))
             /\ last.out = 0
             /\ frames = <<>>

C13_Witness ==
    /\ last.op = "get_nwis"
    /\ last.status_code = 201
    /\ last.raised = "SystemExit"
    /\ Cites(last.message, "Created")

\* C14: when the fetch succeeds and the response holds zero observation rows,
\* get_nwis fails with the empty-result error (SystemExit) whose message
\* cites the request URL; no other error is raised first and no container
\* is returned.
C14_EmptyResultError ==
    (last.op = "get_nwis" /\ last.gets > 0 /\ last.status_code = 200 /\ last.rows = 0) =>
        /\ last.raised = "SystemExit"
        /\ last.raised_in = "get_nwis"
        /\ Cites(last.message, url_text(last.url))
        /\ last.out = 0

\* C15: a get_nwis call issues at most one GET, exactly one when it returns
\* a container and when the request failed (no retry); no operation on a
\* container issues a request.
C15_OneRequestPerFetch ==
    /\ last.op = "get_nwis" =>
            /\ last.gets <= 1
            /\ last.out # 0 => last.gets = 1
            /\ last.raised_in = "query_url" => last.gets = 1
    /\ last.op # "get_nwis" => last.gets = 0

C15_Witness ==
    /\ last.op = "fill_gaps"
    /\ last.out # last.frame
    /\ last.gets = 0
    /\ dicts[Returned.meta]["_url"] =
            url_text(build_url("12301933", FirstDate, LastDate, "00060", "00003", "dv", "0"))

\* the gap flag of container f: check_gaps() with no argument
gap_flag(f) == check_gaps(frames[f].rows, dicts[frames[f].meta], PyNone, PyNone, PyNone).ret

\* C16: for a series with a configured gap tolerance the gap flag is True
\* while an expected timestamp is missing, and the gap flag of the series
\* that fill_gaps() (no argument) returned is False.
C16_GapFlagFalseAfterFill ==
    /\ \A f \in 1..Len(frames) :
            LET meta == dicts[frames[f].meta] IN
            (meta["_gap_tolerance"] \in ValidFreq
                /\ expected_index(meta, meta["_gap_tolerance"]) \ Index(frames[f].rows) # {})
            => gap_flag(f) = "True"
    /\ (last.op = "fill_gaps" /\ last.gap_tol = PyNone /\ Stored \in ValidFreq)
            => gap_flag(last.out) = "False"

\* dict.get("_mask_flag")
mask_flag(meta) == IF "_mask_flag" \in DOMAIN meta THEN meta["_mask_flag"] ELSE PyNone

\* C17: the mask flag is "unknown" on a container whose masks were not
\* resolved, and after resolve_masks the metadata entry _mask_flag is True.
C17_MaskFlagRecorded ==
    /\ (last.op = "get_nwis" /\ last.out # 0 /\ dicts[1]["_resolve_masking"] = "False")
            => mask_flag(dicts[1]) = "unknown"
    /\ last.op = "resolve_masks" => mask_flag(dicts[Target.meta]) = "True"

Carries(name, value) ==
    \E i \in 1..Len(last.url.query) : last.url.query[i] = <<name, value>>

\* the statistic code, station, parameter, dates and access level the
\* caller supplied, under the name either get_nwis takes them by
Supplied(name) ==
    LET own == CASE name = "statCd" -> "stat_code" [] name = "sites" -> "STAID"
                 [] name = "parameterCd" -> "param" [] name = "startDT" -> "start_date"
                 [] name = "endDT" -> "end_date" [] name = "access" -> "access"
    IN  IF last.op = "get_nwis" THEN own ELSE name

\* C19: every request sent to the dv service carries the statistic code the
\* caller supplied as statCd, and every request sent to the iv service
\* carries sites, parameterCd, startDT, endDT and access as supplied.
C19_RequestCarriesParameters ==
    last.gets > 0 =>
        /\ (last.service = "dv" /\ Has(last.kwargs, Supplied("statCd")))
                => Carries("statCd", Get(last.kwargs, Supplied("statCd")))
        /\ last.service = "iv" =>
                \A name \in {"sites", "parameterCd", "startDT", "endDT", "access"} :
                    Has(last.kwargs, Supplied(name))
                        => Carries(name, Get(last.kwargs, Supplied(name)))

\* A position in a document is the path of item numbers that leads to it.
Child(d, i) == IF d.t = "dict" THEN d.items[i][2] ELSE d.items[i]

RECURSIVE At(_, _)
At(d, p) == IF p = <<>> THEN d ELSE At(Child(d, p[1]), Tail(p))

RECURSIVE Paths(_)
Paths(d) ==
    {<<>>} \cup UNION {{<<i>> \o p : p \in Paths(Child(d, i))} : i \in 1..Len(d.items)}

\* the position is the value of a dict entry named key
IsMatch(d, p, key) ==
    /\ p # <<>>
    /\ LET parent == At(d, SubSeq(p, 1, Len(p) - 1)) IN
            parent.t = "dict" /\ parent.items[p[Len(p)]][1] = key

Matches(d, key) == {p \in Paths(d) : IsMatch(d, p, key)}

\* the matches that do not lie inside the value of another match
Outermost(d, key) ==
    {p \in Matches(d, key) : \A n \in 1..(Len(p) - 1) : ~IsMatch(d, SubSeq(p, 1, n), key)}

\* depth-first document order: a position comes before those inside it and
\* before those that branch off later
Before(p, q) ==
    /\ p # q
    /\ \/ Len(p) < Len(q) /\ SubSeq(q, 1, Len(p)) = p
       \/ \E i \in 1..Len(p) :
            /\ i <= Len(q)
            /\ SubSeq(p, 1, i - 1) = SubSeq(q, 1, i - 1)
            /\ p[i] < q[i]

RECURSIVE InOrder(_)
InOrder(S) ==
    IF S = {} THEN <<>>
    ELSE LET first == CHOOSE p \in S : \A q \in S \ {p} : Before(p, q)
         IN <<first>> \o InOrder(S \ {first})

ValuesAt(d, paths) == [i \in 1..Len(paths) |-> At(d, paths[i])]

\* C20 as claimed: item_generator yields, in depth-first document order, the
\* value of every dict entry named key at any depth; its first result is the
\* value of the first occurrence and it yields nothing when key is absent.
C20_YieldsEveryMatch ==
    last.op = "item_generator" =>
        last.ret = ValuesAt(last.data, InOrder(Matches(last.data, last.key)))

\* C20 amended: item_generator yields, in depth-first document order, the
\* value of every dict entry named key that does not lie inside the value
\* of another entry named key; its first result is the value of the first
\* occurrence of key and it yields nothing when key does not occur.
C20_YieldsOutermostMatches ==
    last.op = "item_generator" =>
        /\ last.ret = ValuesAt(last.data, InOrder(Outermost(last.data, last.key)))
        /\ Matches(last.data, last.key) = {} <=> last.ret = <<>>
        /\ last.ret # <<>> =>
                last.ret[1] = At(last.data, InOrder(Matches(last.data, last.key))[1])

C20_Witness ==
    /\ last.op = "item_generator"
    /\ Len(last.ret) = 2
    /\ Cardinality(Matches(last.data, last.key)) = 3
    /\ last.ret[1] # last.ret[2]

\* the pairs of the query built whose parameter is name
PairsOf(name) == {i \in 1..Len(last.url.query) : last.url.query[i][1] = name}

\* the argument the query built gives the parameter name
Argument(name) == last.url.query[CHOOSE i \in PairsOf(name) : TRUE][2]

\* a query string was built from the keyword arguments of the last call
QueryBuilt ==
    /\ last.op \in {"_construct_url_query", "getqwp"}
    /\ last.raised_in # "_construct_url_query"

KnownServices ==
    {"project", "site metadata", "results", "result detection", "activity",
     "activity metric", "biological metric", "project weighting"}

\* C22: getqwp with a service that is not a known WQP service raises a
\* configuration error out of the construction of the URL, before anything is
\* read: no URL is fetched and no file is opened for it.
C22_InvalidServiceRaisesBeforeFetch ==
    (last.op = "getqwp" /\ last.service \notin KnownServices) =>
        /\ last.raised # ""
        /\ last.raised_in \in {"_get_base_url", "_construct_url"}
        /\ last.gets = 0

\* every instant of the resolved tolerance from midnight of the start date
\* through the end of the end date
InclusiveExpected ==
    {t \in Timestamp(last.pre_meta["_start_date"])
            ..(Timestamp(last.pre_meta["_end_date"]) + to_offset("D") - 1) :
        (t - Timestamp(last.pre_meta["_start_date"])) % to_offset(Resolved) = 0}

\* C23: start and end date are an inclusive range of calendar dates: the
\* expected sequence covers every interval from the start date through the
\* end of the end date, so gap_index reports exactly the instants of that
\* range that have no observation and a fill_gaps that reindexes returns
\* exactly the instants of that range, the observations of the end date
\* among them.
C23_EndDateIsInclusive ==
    /\ (last.op = "gap_index" /\ last.raised = "") =>
            last.index = InclusiveExpected \ Actual
    /\ (last.op = "fill_gaps" /\ last.out # last.frame) =>
            Index(Returned.rows) = InclusiveExpected

\* the window of the last call, given by both of its dates
Windowed == last.window[1] # PyNone /\ last.window[2] # PyNone

\* the instants from the first of the window's start date through the last
\* of its end date
WindowTicks ==
    {t \in Ticks : /\ t >= Timestamp(last.window[1])
                   /\ t < Timestamp(last.window[2]) + to_offset("D")}

\* C24: called with a resolvable tolerance and both start_date and
\* end_date, check_gaps returns True if and only if an expected timestamp
\* that has no observation lies inside the window, and False otherwise,
\* whatever is missing outside the window.
C24_WindowedCheckSeesWindowOnly ==
    (last.op = "check_gaps" /\ ~Unresolvable /\ Windowed) =>
        /\ last.ret \in {"True", "False"}
        /\ last.ret = "True" <=> (\E t \in WindowTicks : t \in Expected /\ t \notin Actual)

C24_Witness ==
    /\ last.op = "check_gaps"
    /\ last.window = <<LastDate, LastDate>>
    /\ last.ret = "False"
    /\ \E t \in Expected \ Actual : t \notin WindowTicks

\* the stored gap tolerance of the returned container after the call
StoredAfter == dicts[Returned.meta]["_gap_tolerance"]

\* C25: in check_gaps, gap_index and fill_gaps the tolerance used is the
\* argument whenever one is passed and the stored tolerance only when the
\* argument is None, and it is Unknown exactly when the argument is None and
\* the stored tolerance is None or Unknown: check_gaps returns Unknown in
\* exactly that case, gap_index raises in that case and otherwise answers at
\* the resolved tolerance, fill_gaps returns the container itself in that
\* case and otherwise, when it reindexes, reindexes at the resolved
\* tolerance and stores it.
C25_ToleranceResolution ==
    /\ last.op = "check_gaps" => (last.ret = Unknown <=> Unresolvable)
    /\ last.op = "gap_index" =>
            /\ Unresolvable => last.raised = "ValueError"
            /\ last.raised = "" => last.index = Expected \ Actual
    /\ last.op = "fill_gaps" =>
            /\ Unresolvable => (last.out = last.frame /\ last.warned)
            /\ last.out # last.frame =>
                    (StoredAfter = Resolved /\ Index(Returned.rows) = Expected)

C25_Witness ==
    /\ last.op = "gap_index"
    /\ last.gap_tol = "12H"
    /\ Stored = "D"
    /\ last.raised = ""
    /\ last.index # date_range(last.pre_meta["_start_date"], last.pre_meta["_end_date"], "D")
                        \ Actual

\* the timestamps of rows, or of the rows of a response, strictly increase
Increasing(rows) ==
    \A i \in 1..(Len(rows) - 1) : rows[i].dateTime < rows[i + 1].dateTime
IncreasingResponse(rdata) ==
    \A i \in 1..(Len(rdata.rows) - 1) :
        rdata.rows[i].dateTime.local < rdata.rows[i + 1].dateTime.local

\* C26 as claimed: in every container returned by get_nwis, and after any
\* sequence of fill_gaps and resolve_masks on it, the rows are ordered by
\* strictly increasing timestamp.
C26_RowsStrictlyIncreasing ==
    \A f \in 1..Len(frames) : Increasing(frames[f].rows)

\* C26 amended: the rows keep the order of the response, which the code
\* neither sorts nor rids of duplicates: the container get_nwis returns has
\* strictly increasing timestamps if the response has them, resolve_masks
\* and a fill_gaps that gives up keep them that way, and a fill_gaps that
\* reindexes returns strictly increasing timestamps.
C26_RowsIncreasingIfResponseIs ==
    /\ (last.op = "get_nwis" /\ last.out = 1 /\ IncreasingResponse(last.data)) =>
            Increasing(frames[1].rows)
    /\ (last.op = "resolve_masks" /\ Increasing(last.pre_rows)) => Increasing(Target.rows)
    /\ (last.op = "fill_gaps" /\ Increasing(last.pre_rows)) =>
            (Increasing(Target.rows) /\ Increasing(Returned.rows))
    /\ (last.op = "fill_gaps" /\ last.out # last.frame) => Increasing(Returned.rows)

C26_Witness ==
    /\ last.op = "fill_gaps"
    /\ last.out # last.frame
    /\ Increasing(last.pre_rows)
    /\ Len(Returned.rows) > Len(last.pre_rows)
    /\ Len(last.pre_rows) > 0

\* C27: recomputing a quality flag is idempotent: a check_approval (or a
\* check_quals) that follows the same call on the same container, whose rows
\* did not change, returns what that call returned, whatever the metadata
\* holds under _approval.
C27_RecomputeIsIdempotent ==
    [][(/\ last.op \in {"check_approval", "check_quals"}
        /\ last'.op = last.op
        /\ last'.frame = last.frame
        /\ frames'[last'.frame].rows = last.pre_rows)
            => last'.ret = last.ret]_vars

C27_Witness ==
    /\ last.op = "check_approval"
    /\ last.pre_meta["_approval"] \notin {Unknown, last.ret}
    /\ dicts[Target.meta]["_approval"] = last.ret

\* the four metadata fields as the body of the last call supplied them and
\* as the container's metadata holds them
SuppliedFields ==
    <<last.data.siteName, last.data.latitude, last.data.longitude,
      last.data.variableDescription>>
StoredFields ==
    <<dicts[1]["_site_name"], dicts[1]["_coords"][1], dicts[1]["_coords"][2],
      dicts[1]["_var_description"]>>

\* C28: the metadata of a fetched container holds site name, latitude,
\* longitude and variable description exactly as the response supplied them,
\* a latitude or longitude of 0 included, and holds Unknown only for a field
\* the response left out.
C28_MetadataAsSupplied ==
    (last.op = "get_nwis" /\ last.out = 1) =>
        \A k \in 1..4 :
            IF SuppliedFields[k] = Missing THEN StoredFields[k] = Unknown
            ELSE StoredFields[k] = SuppliedFields[k]

\* C29: fill_gaps returns a new container and leaves the one it was called
\* on unchanged: after a fill_gaps that reindexed, the original's rows and
\* every entry of its metadata, the stored gap tolerance included, are what
\* they were before the call.
C29_FillGapsLeavesOriginalUnchanged ==
    (last.op = "fill_gaps" /\ last.out # last.frame) =>
        /\ Target.rows = last.pre_rows
        /\ dicts[Target.meta] = last.pre_meta

\* C30: whatever was done to a container and to the containers derived from
\* it, an approval cached in a container's metadata under _approval is the
\* approval recomputed from that container's current rows.
C30_CachedApprovalIsCurrent ==
    \A f \in 1..Len(frames) :
        dicts[frames[f].meta]["_approval"] # Unknown =>
            dicts[frames[f].meta]["_approval"] = approval_level(frames[f].rows)
====
